---- MODULE Spec2Model ----
(***************************************************************************)
(* Model of the OpenFOAM / TELEMAC import add-on: the mesh extraction      *)
(* pipeline (load_openfoam_file, generate_mesh_data,                       *)
(* prepare_openfoam_point_data), the streaming-sequence frame-change       *)
(* handler, the mesh-sequence creation steps and the TELEMAC temporary     *)
(* data reader.                                                            *)
(*                                                                         *)
(* Conventions.  A Python string whose characters matter (names that are   *)
(* split on "@") is a sequence of one-character strings.  Array indices    *)
(* stored in data (face indices, mesh ids) are 0-based as in the code;     *)
(* the element with 0-based index i of a sequence s is s[i + 1].           *)
(* Floating point values are integers.                                     *)
(***************************************************************************)
EXTENDS Integers, Sequences, FiniteSets, TLC

VARIABLES
    gen,      \* the last call of a function of the mesh pipeline: name, arguments, result
    tel,      \* a TBB_TelemacTemporaryData object and the Serafin file it reads
    ret,      \* the last call of a method of tel: name, arguments, result
    addon,    \* whether the add-on is registered, and the frame_change_pre handlers
    scene,    \* frame_current and tbb.create_sequence_is_running
    disk,     \* the paths that exist
    objects,  \* the objects of the scene, by name
    meshes,   \* the meshes made for mesh sequences (bpy.data.meshes), by name
    seq,      \* the run of the 'create mesh sequence' operator
    log       \* the handler invocations of the last frame change

pipeVars == <<gen>>
telemacVars == <<tel, ret>>
sceneVars == <<addon, scene, disk, objects, meshes, seq, log>>
vars == <<gen, tel, ret, addon, scene, disk, objects, meshes, seq, log>>

\* the values of the variables of a part of the model that is not in use
PipelineIdle == gen = [fn |-> "none"]
TelemacIdle == tel = [nb_time_points |-> 0] /\ ret = [fn |-> "none"]
\* no run of the 'create mesh sequence' operator yet
NoRun ==
    [active |-> FALSE, settings |-> <<>>, start |-> 0, time_point |-> 0, end |-> 0,
     frame |-> 0, steps |-> 0, lead |-> FALSE, failed |-> FALSE, runs |-> 0]

SceneIdle ==
    /\ addon = [registered |-> FALSE, frame_change_pre |-> <<>>]
    /\ scene = [frame_current |-> 0, create_sequence_is_running |-> FALSE]
    /\ disk = {}
    /\ objects = <<>>
    /\ meshes = <<>>
    /\ seq = NoRun
    /\ log = <<>>

(***************************************************************************)
(* Bounds of the model.                                                    *)
(***************************************************************************)
\* number of time points stored in the OpenFOAM case on disk
NumTimePoints == 3
\* a TELEMAC file holds 1 .. MaxTelemacTimePoints time points
MaxTelemacTimePoints == 3
\* a TELEMAC file holds 1 .. MaxTelemacVars variables
MaxTelemacVars == 2
\* frames of the timeline are 0 .. MaxFrame
MaxFrame == 3
MaxHandlers == 2
MaxRuns == 1

(***************************************************************************)
(* Strings.                                                                *)
(***************************************************************************)
None == "None"

RECURSIVE SplitFrom(_, _, _)
\* str.split(sep) for a one-character separator: cur is the part being read
SplitFrom(s, sep, cur) ==
    IF s = <<>> THEN <<cur>>
    ELSE IF Head(s) = sep THEN <<cur>> \o SplitFrom(Tail(s), sep, <<>>)
    ELSE SplitFrom(Tail(s), sep, Append(cur, Head(s)))

Split(s, sep) == SplitFrom(s, sep, <<>>)

str_value == <<"v", "a", "l", "u", "e">>
str_vector_value == <<"v", "e", "c", "t", "o", "r", "_", "v", "a", "l", "u", "e">>
str_p == <<"p">>
str_U == <<"U">>
str_T == <<"T">>
str_p_value == str_p \o <<"@">> \o str_value
str_U_vector_value == str_U \o <<"@">> \o str_vector_value
str_T_value == str_T \o <<"@">> \o str_value

(***************************************************************************)
(* Numbers.                                                                *)
(***************************************************************************)
\* the value of Op on v: a name for a value used more than once
With(v, Op(_)) == Op(v)

Min(S) == CHOOSE x \in S : \A y \in S : x <= y
Max(S) == CHOOSE x \in S : \A y \in S : x >= y

\* numpy.linalg.norm of a 3-vector; the vectors of the model have an
\* integer Euclidean norm
Norm(v) ==
    LET sq == v[1] * v[1] + v[2] * v[2] + v[3] * v[3]
    IN  CHOOSE n \in 0..sq : n * n = sq

Range(s) == {s[i] : i \in DOMAIN s}

RECURSIVE Concat(_)
\* concatenation of a sequence of sequences
Concat(ss) == IF ss = <<>> THEN <<>> ELSE Head(ss) \o Concat(Tail(ss))

(***************************************************************************)
(* The geometry library (pyvista) as far as the add-on drives it.  A mesh  *)
(* is a record                                                             *)
(*   kind        "UnstructuredGrid" or "PolyData"                          *)
(*   points      sequence of coordinates (one number stands for a point)   *)
(*   polys       sequence of faces, a face being a sequence of 0-based     *)
(*               point indices                                             *)
(*   point_data  name -> array [dim, vals]: dim = 1 for a scalar field     *)
(*               (shape (n,)), 3 for a vector field (shape (n, 3)); vals   *)
(*               holds one number, or one 3-vector, per point              *)
(*   sharp       whether the surface has feature edges (compute_normals    *)
(*               with split_vertices duplicates the points there)          *)
(*   calls       the library calls applied to the mesh, in order           *)
(***************************************************************************)
\* the 0-based indices of the points kept, in increasing order
KeptIndices(n, keep) ==
    LET RECURSIVE From(_)
        From(i) == IF i >= n THEN <<>>
                   ELSE IF i \in keep THEN <<i>> \o From(i + 1)
                   ELSE From(i + 1)
    IN  From(0)

\* position (0-based) of index i in the sequence of kept indices
NewIndex(kept, i) == (CHOOSE k \in DOMAIN kept : kept[k] = i) - 1

\* restrict a mesh to the points of keep and to the faces whose points are all kept
Restrict(mesh, keep) ==
    LET kept == KeptIndices(Len(mesh.points), keep)
        faces == SelectSeq(mesh.polys, LAMBDA f : Range(f) \subseteq keep)
    IN  [mesh EXCEPT
            !.points = [k \in DOMAIN kept |-> mesh.points[kept[k] + 1]],
            !.polys = [j \in DOMAIN faces |->
                          [c \in DOMAIN faces[j] |-> NewIndex(kept, faces[j][c])]],
            !.point_data = [nm \in DOMAIN mesh.point_data |->
                          [mesh.point_data[nm] EXCEPT !.vals =
                              [k \in DOMAIN kept |-> mesh.point_data[nm].vals[kept[k] + 1]]]]]

\* the quantity a point is clipped on: the value of a scalar, the magnitude of a vector
ClipQuantity(arr, i) == IF arr.dim = 1 THEN arr.vals[i + 1] ELSE Norm(arr.vals[i + 1])

\* UnstructuredGrid.clip_scalar(inplace=True, scalars, invert, value): with
\* invert the part below value is kept, without it the part above
clip_scalar(mesh, scalars, invert, value) ==
    LET arr == mesh.point_data[scalars]
        keep == {i \in 0..(Len(mesh.points) - 1) :
                    IF invert THEN ClipQuantity(arr, i) <= value
                    ELSE ClipQuantity(arr, i) >= value}
    IN  [Restrict(mesh, keep) EXCEPT
            !.calls = Append(mesh.calls,
                [fn |-> "clip_scalar", scalars |-> scalars, invert |-> invert, value |-> value])]

\* extract_surface(nonlinear_subdivision=0): the faces as PolyData, with the
\* points no face uses dropped
extract_surface(mesh) ==
    LET used == UNION {Range(mesh.polys[j]) : j \in DOMAIN mesh.polys}
    IN  [Restrict(mesh, used) EXCEPT
            !.kind = "PolyData",
            !.calls = Append(mesh.calls, [fn |-> "extract_surface"])]

\* a polygon of n corners as the fan of its n - 2 triangles
Fan(f) == [i \in 1..(Len(f) - 2) |-> <<f[1], f[i + 1], f[i + 2]>>]

\* PolyData.triangulate(inplace=True)
triangulate_mesh(mesh) ==
    [mesh EXCEPT
        !.polys = Concat([j \in DOMAIN mesh.polys |-> Fan(mesh.polys[j])]),
        !.calls = Append(mesh.calls, [fn |-> "triangulate"])]

\* PolyData.compute_normals(inplace=True, consistent_normals=False,
\* split_vertices=True): on a surface with feature edges every corner of every
\* face gets a point of its own
compute_normals(mesh) ==
    LET corners == Concat(mesh.polys)
        Offset(j) == Len(Concat(SubSeq(mesh.polys, 1, j - 1)))
        split == [mesh EXCEPT
            !.points = [k \in DOMAIN corners |-> mesh.points[corners[k] + 1]],
            !.polys = [j \in DOMAIN mesh.polys |->
                          [c \in DOMAIN mesh.polys[j] |-> Offset(j) + c - 1]],
            !.point_data = [nm \in DOMAIN mesh.point_data |->
                          [mesh.point_data[nm] EXCEPT !.vals =
                              [k \in DOMAIN corners |-> mesh.point_data[nm].vals[corners[k] + 1]]]]]
    IN  [(IF mesh.sharp THEN split ELSE mesh) EXCEPT
            !.calls = Append(mesh.calls, [fn |-> "compute_normals"])]

\* PolyData.faces: the flat array [n0, i, j, k, ..., n1, ...]
mesh_faces(mesh) == Concat([j \in DOMAIN mesh.polys |-> <<Len(mesh.polys[j])>> \o mesh.polys[j]])

n_faces(mesh) == Len(mesh.polys)

is_all_triangles(mesh) ==
    /\ mesh.polys # <<>>
    /\ \A j \in DOMAIN mesh.polys : Len(mesh.polys[j]) = 3

(***************************************************************************)
(* The OpenFOAM case on disk.  The mesh of time point tp has points whose  *)
(* coordinates name the time point, so that two time points never give the *)
(* same geometry.  The field U does not exist at time point 0.             *)
(***************************************************************************)
CasePath == "case.foam"
OtherPath == "old.foam"
Paths == {CasePath, OtherPath}

ScalarArray(vals) == [dim |-> 1, vals |-> vals]
VectorArray(vals) == [dim |-> 3, vals |-> vals]

Vectors == << <<0, 0, 0>>, <<1, 2, 2>>, <<0, 3, 4>>, <<2, 3, 6>>, <<1, 2, 2>> >>

RawPolys(tp) ==
    CASE tp % 3 = 0 -> << <<0, 1, 2, 3>> >>
      [] tp % 3 = 1 -> << <<0, 1, 2, 3>>, <<2, 3, 4>> >>
      [] OTHER      -> << <<0, 1, 2, 3, 4>> >>

RawMesh(tp, case_read) ==
    LET n == IF tp % 3 = 0 THEN 4 ELSE 5
        p == ScalarArray([i \in 1..n |-> IF tp % 3 = 2 THEN 2 ELSE i + tp])
        T == ScalarArray([i \in 1..n |-> -i])
        U == VectorArray([i \in 1..n |-> Vectors[i]])
    IN  [kind |-> "UnstructuredGrid",
         points |-> [i \in 1..n |-> 10 * tp + i],
         polys |-> RawPolys(tp),
         point_data |-> IF tp = 0 THEN (str_p :> p) @@ (str_T :> T)
                        ELSE (str_p :> p) @@ (str_T :> T) @@ (str_U :> U),
         sharp |-> (tp % 2 = 1),
         case_read |-> case_read,
         calls |-> <<>>]

(***************************************************************************)
(* Python results: exc is None on a normal return and the name of the      *)
(* exception raised otherwise.  An optional argument is a record with the  *)
(* field is_none; the reader returned with a failure is NoneReader.        *)
(***************************************************************************)
NoneValue == [is_none |-> TRUE]
Some(v) == [is_none |-> FALSE, value |-> v]
NoneReader == [cls |-> None]
Raise(e) == [exc |-> e]

\* OpenFOAMReader(path) / POpenFOAMReader(path): a reader is constructed on
\* time point 0, the parallel reader with case type 'reconstructed'
NewReader(cls, path) ==
    [cls |-> cls, path |-> path, case_type |-> "reconstructed",
     decompose_polyhedra |-> FALSE, active |-> 0]

\* the case a reader reads: the serial reader has no decomposed case
reader_case_read(reader) ==
    IF reader.cls = "POpenFOAMReader" THEN reader.case_type ELSE "reconstructed"

number_time_points(reader) == NumTimePoints

\* reader.set_active_time_point(tp); reader.read()["internalMesh"]
reader_read_at(reader, tp) ==
    IF tp >= number_time_points(reader) THEN Raise("IndexError")
    ELSE [exc |-> None, mesh |-> RawMesh(tp, reader_case_read(reader))]

(***************************************************************************)
(* load_openfoam_file.  fs is the set of paths that exist.    The int 1    *)
(* that the code compares case_type with is the token "1"; the values the  *)
(* settings hold are the strings 'reconstructed' and 'decomposed'.         *)
(***************************************************************************)
CaseTypes == {"reconstructed", "decomposed"}

\* the body of load_openfoam_file without the assignment of case_type
load_openfoam_file_no_case_type(fs, file_path, case_type, decompose_polyhedra) ==
    IF file_path \notin fs
    THEN [success |-> FALSE, reader |-> NoneReader, constructed |-> <<>>]
    ELSE LET cls == IF case_type = "1" THEN "OpenFOAMReader" ELSE "POpenFOAMReader"
             file_reader == NewReader(cls, file_path)
         IN  [success |-> TRUE,
              reader |-> [file_reader EXCEPT !.decompose_polyhedra = decompose_polyhedra],
              constructed |-> <<cls>>]

load_openfoam_file(fs, file_path, case_type, decompose_polyhedra) ==
    IF file_path \notin fs
    THEN [success |-> FALSE, reader |-> NoneReader, constructed |-> <<>>]
    ELSE LET cls == IF case_type = "1" THEN "OpenFOAMReader" ELSE "POpenFOAMReader"
             r0 == NewReader(cls, file_path)
             file_reader == IF case_type = "1" THEN r0
                            ELSE [r0 EXCEPT !.case_type = case_type]
         IN  [success |-> TRUE,
              reader |-> [file_reader EXCEPT !.decompose_polyhedra = decompose_polyhedra],
              constructed |-> <<cls>>]

(***************************************************************************)
(* generate_mesh_data.  clip is NoneValue or a record                      *)
(*   [is_none |-> FALSE, type, scalar |-> [name, value, vector_value,      *)
(*    invert]]                                                             *)
(* where scalar.name is an identifier "<field>@<value type>".              *)
(***************************************************************************)
\* the slice [:, 0:3] in place of [:, 1:4]: the face keeps its size prefix
reshape_faces_with_padding(flat) ==
    [r \in 1..(Len(flat) \div 4) |-> SubSeq(flat, 4 * (r - 1) + 1, 4 * (r - 1) + 3)]

\* np.array(mesh.faces).reshape(-1, 4)[:, 1:4]
reshape_faces(flat) ==
    [r \in 1..(Len(flat) \div 4) |-> SubSeq(flat, 4 * (r - 1) + 2, 4 * (r - 1) + 4)]

RECURSIVE loop_faces(_, _, _, _)
\* the loop over range(mesh.n_faces) reading one size-prefixed face at a time;
\* padding_id is the 0-based position in faces_indices
loop_faces(faces_indices, id, nfaces, padding_id) ==
    IF id >= nfaces \/ padding_id >= Len(faces_indices) THEN <<>>
    ELSE LET padding == faces_indices[padding_id + 1]
             last == Min({padding_id + 1 + padding, Len(faces_indices)})
         IN  <<SubSeq(faces_indices, padding_id + 2, last)>>
                 \o loop_faces(faces_indices, id + 1, nfaces, padding_id + (padding + 1))

\* the 'Apply clip' part with the vector threshold taken from clip.scalar.value
\* and not from the norm of clip.scalar.vector_value
apply_clip_without_norm(mesh, clip) ==
    IF ~clip.is_none /\ clip.type = "scalar"
    THEN LET parts == Split(clip.scalar.name, "@")
         IN  IF Len(parts) < 2 THEN Raise("IndexError")
             ELSE IF parts[1] \notin DOMAIN mesh.point_data THEN Raise("KeyError")
             ELSE LET m0 == [mesh EXCEPT !.calls = Append(mesh.calls,
                                 [fn |-> "set_active_scalars", name |-> parts[1]])]
                  IN  [exc |-> None,
                       mesh |-> extract_surface(clip_scalar(m0, parts[1], clip.scalar.invert,
                                                            clip.scalar.value))]
    ELSE [exc |-> None, mesh |-> extract_surface(mesh)]

\* the 'Apply clip' part: the exception raised, or the mesh after it
apply_clip(mesh, clip) ==
    IF ~clip.is_none /\ clip.type = "scalar"
    THEN LET parts == Split(clip.scalar.name, "@")
         IN  IF Len(parts) < 2 THEN Raise("IndexError")
             ELSE LET name == parts[1]
                      value_type == parts[2]
                  IN  IF name \notin DOMAIN mesh.point_data THEN Raise("KeyError")
                      ELSE With([mesh EXCEPT !.calls = Append(mesh.calls,
                                    [fn |-> "set_active_scalars", name |-> name])], LAMBDA m0 :
                           With(IF value_type = str_value
                                THEN clip_scalar(m0, name, clip.scalar.invert,
                                                 clip.scalar.value)
                                ELSE m0, LAMBDA m1 :
                           With(IF value_type = str_vector_value
                                THEN clip_scalar(m1, name, clip.scalar.invert,
                                                 Norm(clip.scalar.vector_value))
                                ELSE m1, LAMBDA m2 :
                           [exc |-> None, mesh |-> extract_surface(m2)])))
    ELSE [exc |-> None, mesh |-> extract_surface(mesh)]

generate_mesh_data(file_reader, time_point, triangulate, clip, mesh) ==
    With(IF mesh.is_none THEN reader_read_at(file_reader, time_point)
         ELSE [exc |-> None, mesh |-> mesh.value], LAMBDA rd :
    IF rd.exc # None THEN rd
    ELSE With(apply_clip(rd.mesh, clip), LAMBDA cl :
    IF cl.exc # None THEN cl
    ELSE With(IF triangulate THEN compute_normals(triangulate_mesh(cl.mesh))
              ELSE cl.mesh, LAMBDA m :
    [exc |-> None,
     vertices |-> m.points,
     faces |-> IF is_all_triangles(m) THEN reshape_faces(mesh_faces(m))
               ELSE loop_faces(mesh_faces(m), 0, n_faces(m), 0),
     mesh |-> m])))

(***************************************************************************)
(* Mesh data blocks of the host (bpy.types.Mesh).  use_smooth stands for   *)
(* the flag of all polygons, vertex_colors for the names of the layers.    *)
(***************************************************************************)
EmptyMeshData == [vertices |-> <<>>, faces |-> <<>>, use_smooth |-> FALSE, vertex_colors |-> <<>>]

\* Mesh.clear_geometry(): vertices, faces and their layers are removed
clear_geometry(data) == EmptyMeshData

\* Mesh.from_pydata(vertices, [], faces)
from_pydata(data, vertices, faces) == [data EXCEPT !.vertices = vertices, !.faces = faces]

(***************************************************************************)
(* prepare_openfoam_point_data: the filter of the names of the list and    *)
(* the read of each kept variable.                                         *)
(***************************************************************************)
str_None == <<"N", "o", "n", "e">>

\* an entry of the ids of a group: the id of a variable, or -1 where the
\* group is padded
Id(key) == [id |-> key]
NoId == [pad |-> -1]

str_sep == <<",", " ">>

\* the name of a group of three: 'a, b, c'
JoinNames(names) == names[1] \o str_sep \o names[2] \o str_sep \o names[3]

RECURSIVE pack_scalars(_)
\* scalar variables packed three per group, the last group padded
pack_scalars(scalars) ==
    IF scalars = <<>> THEN <<>>
    ELSE LET n == Min({3, Len(scalars)})
         IN  <<[name |-> JoinNames([j \in 1..3 |-> IF j <= n THEN scalars[j].name ELSE str_None]),
                ids |-> [j \in 1..3 |-> IF j <= n THEN Id(scalars[j].id) ELSE NoId]]>>
                 \o pack_scalars(SubSeq(scalars, n + 1, Len(scalars)))

\* generate_vertex_colors_groups: one group per vector variable, then the
\* groups of the scalar variables
generate_vertex_colors_groups(variables) ==
    LET vectors == SelectSeq(variables, LAMBDA var : var.type = "VECTOR")
        scalars == SelectSeq(variables, LAMBDA var : var.type = "SCALAR")
    IN  [i \in DOMAIN vectors |->
            [name |-> JoinNames(<<vectors[i].name \o <<".", "x">>,
                                  vectors[i].name \o <<".", "y">>,
                                  vectors[i].name \o <<".", "z">> >>),
             ids |-> <<Id(vectors[i].id)>>]]
            \o pack_scalars(scalars)

\* variant of the filter that takes every variable for a scalar
filter_variables_all_scalar(mesh, list_point_data) ==
    LET kept == SelectSeq(list_point_data, LAMBDA raw_key :
                    /\ Split(raw_key, "@")[1] # str_None
                    /\ (Len(Split(raw_key, "@")) >= 2 \/ Split(raw_key, "@")[1] \in DOMAIN mesh.point_data))
    IN  [i \in DOMAIN kept |->
            [name |-> Split(kept[i], "@")[1], type |-> "SCALAR", id |-> Split(kept[i], "@")[1]]]

RECURSIVE filter_variables(_, _)
\* the loop 'for raw_key in list_point_data' building filtered_variables
filter_variables(mesh, list_point_data) ==
    IF list_point_data = <<>> THEN <<>>
    ELSE LET raw_key == Head(list_point_data)
             parts == Split(raw_key, "@")
             key == parts[1]
             rest == filter_variables(mesh, Tail(list_point_data))
             Var(type) == [name |-> key,
                           type |-> IF type = str_value THEN "SCALAR" ELSE "VECTOR",
                           id |-> key]
         IN  IF Len(parts) >= 2
             THEN IF key # str_None THEN <<Var(parts[2])>> \o rest ELSE rest
             ELSE IF key \notin DOMAIN mesh.point_data THEN rest
             ELSE LET type == IF mesh.point_data[key].dim = 1 THEN str_value
                              ELSE str_vector_value
                  IN  IF key # str_None THEN <<Var(type)>> \o rest ELSE rest

\* the variables kept, or the KeyError of mesh.get_array on a kept variable
\* that the mesh does not hold
prepare_openfoam_point_data(mesh, blender_mesh, list_point_data, time_point) ==
    LET filtered_variables ==
            filter_variables(mesh, SelectSeq(list_point_data, LAMBDA k : k # <<>>))
    IN  IF \E i \in DOMAIN filtered_variables :
               filtered_variables[i].id \notin DOMAIN mesh.point_data
        THEN Raise("KeyError")
        ELSE [exc |-> None, variables |-> filtered_variables,
              groups |-> generate_vertex_colors_groups(filtered_variables)]

\* generate_vertex_colors: one layer per group, named as the group
generate_vertex_colors(blender_mesh, res) ==
    [blender_mesh EXCEPT !.vertex_colors = [i \in DOMAIN res.groups |-> res.groups[i].name]]

(***************************************************************************)
(* Streaming sequences.  An object is a record                             *)
(*   is_streaming_sequence, is_mesh_sequence   obj.tbb flags               *)
(*   settings   obj.tbb.settings.openfoam.streaming_sequence               *)
(*   data       the mesh of the object                                     *)
(*   mss        obj.mesh_sequence_settings                                 *)
(*   animation  "none" without animation data, "no_fcurve" with an action  *)
(*              that has no curMeshIdx fcurve, "fcurve" with that fcurve   *)
(*   keyframes  the keyframes of the curMeshIdx fcurve                     *)
(***************************************************************************)
\* update_openfoam_streaming_sequence_mesh with clear_geometry called first
update_mesh_clearing_first(fs, obj, settings, time_point) ==
    LET ld == load_openfoam_file(fs, settings.file_path, settings.case_type,
                                 settings.decompose_polyhedra)
        cleared == clear_geometry(obj.data)
    IN  IF ~ld.success
        THEN [exc |-> "OSError", stage |-> "load", cleared |-> TRUE, data |-> cleared]
        ELSE IF time_point >= number_time_points(ld.reader)
        THEN [exc |-> "ValueError", stage |-> "check", cleared |-> TRUE, data |-> cleared]
        ELSE LET g == generate_mesh_data(ld.reader, time_point, settings.triangulate,
                                         settings.clip, NoneValue)
             IN  IF g.exc # None
                 THEN [exc |-> g.exc, stage |-> "generate", cleared |-> TRUE, data |-> cleared]
                 ELSE [exc |-> None, stage |-> "done", cleared |-> TRUE,
                       data |-> from_pydata(cleared, g.vertices, g.faces)]

\* the exception raised (None if none), the stage reached, whether
\* clear_geometry has been called, and the mesh of the object afterwards
update_openfoam_streaming_sequence_mesh(fs, obj, settings, time_point) ==
    With(load_openfoam_file(fs, settings.file_path, settings.case_type,
                            settings.decompose_polyhedra), LAMBDA ld :
    IF ~ld.success
    THEN [exc |-> "OSError", stage |-> "load", cleared |-> FALSE, data |-> obj.data]
    ELSE IF time_point >= number_time_points(ld.reader)
    THEN [exc |-> "ValueError", stage |-> "check", cleared |-> FALSE, data |-> obj.data]
    ELSE With(generate_mesh_data(ld.reader, time_point, settings.triangulate,
                                 settings.clip, NoneValue), LAMBDA g :
    IF g.exc # None
    THEN [exc |-> g.exc, stage |-> "generate", cleared |-> FALSE, data |-> obj.data]
    ELSE With([from_pydata(clear_geometry(obj.data), g.vertices, g.faces)
                  EXCEPT !.use_smooth = settings.shade_smooth], LAMBDA blender_mesh :
    IF ~settings.import_point_data
    THEN [exc |-> None, stage |-> "done", cleared |-> TRUE, data |-> blender_mesh]
    ELSE With(prepare_openfoam_point_data(g.mesh, blender_mesh,
                  Split(settings.list_point_data, ";"), time_point), LAMBDA res :
    IF res.exc # None
    THEN [exc |-> res.exc, stage |-> "point_data", cleared |-> TRUE, data |-> blender_mesh]
    ELSE [exc |-> None, stage |-> "done", cleared |-> TRUE,
          data |-> generate_vertex_colors(blender_mesh, res)]))))

\* the objects the handler updates with the test of the running flag left out
objects_to_update_ignoring_running(scn, objs) ==
    {o \in DOMAIN objs :
        /\ objs[o].is_streaming_sequence /\ objs[o].settings.update
        /\ scn.frame_current - objs[o].settings.frame_start >= 0
        /\ scn.frame_current - objs[o].settings.frame_start < objs[o].settings.anim_length}

\* the objects the handler updates with the test of 'update' left out
objects_to_update_ignoring_update(scn, objs) ==
    IF scn.create_sequence_is_running THEN {}
    ELSE {o \in DOMAIN objs :
            /\ objs[o].is_streaming_sequence
            /\ scn.frame_current - objs[o].settings.frame_start >= 0
            /\ scn.frame_current - objs[o].settings.frame_start < objs[o].settings.anim_length}

\* the objects for which the handler calls update_openfoam_streaming_sequence_mesh
objects_to_update(scn, objs) ==
    IF scn.create_sequence_is_running THEN {}
    ELSE {o \in DOMAIN objs :
            /\ objs[o].is_streaming_sequence /\ objs[o].settings.update
            /\ scn.frame_current - objs[o].settings.frame_start >= 0
            /\ scn.frame_current - objs[o].settings.frame_start < objs[o].settings.anim_length}

\* variant of the handler that marks every object it visits as a streaming
\* sequence
update_openfoam_streaming_sequences_marking(scn, objs, fs) ==
    With(scn.frame_current, LAMBDA frame :
    With(objects_to_update(scn, objs), LAMBDA called :
    With([o \in called |->
             update_openfoam_streaming_sequence_mesh(fs, objs[o], objs[o].settings,
                 frame - objs[o].settings.frame_start)], LAMBDA upd :
    [objects |-> [o \in DOMAIN objs |->
                    IF o \in called THEN [objs[o] EXCEPT !.data = upd[o].data]
                    ELSE [objs[o] EXCEPT !.is_streaming_sequence = ~scn.create_sequence_is_running]],
     calls |-> {[obj |-> o, time_point |-> frame - objs[o].settings.frame_start,
                 exc |-> upd[o].exc, stage |-> upd[o].stage, cleared |-> upd[o].cleared] :
                o \in called}])))

\* one invocation of the handler: the objects afterwards and the calls of
\* update_openfoam_streaming_sequence_mesh it made; an exception of a call is
\* caught and printed, and the loop goes on
update_openfoam_streaming_sequences(scn, objs, fs) ==
    With(scn.frame_current, LAMBDA frame :
    With(objects_to_update(scn, objs), LAMBDA called :
    With([o \in called |->
             update_openfoam_streaming_sequence_mesh(fs, objs[o], objs[o].settings,
                 frame - objs[o].settings.frame_start)], LAMBDA upd :
    [objects |-> [o \in DOMAIN objs |->
                    IF o \in called THEN [objs[o] EXCEPT !.data = upd[o].data] ELSE objs[o]],
     calls |-> {[obj |-> o, time_point |-> frame - objs[o].settings.frame_start,
                 exc |-> upd[o].exc, stage |-> upd[o].stage, cleared |-> upd[o].cleared] :
                o \in called}])))

RECURSIVE run_frame_change_pre(_, _, _, _, _)
\* the host runs the handlers of frame_change_pre in list order; the record
\* of an invocation holds the running flag it saw, the calls it made and the
\* objects whose mesh it changed.  tbb is FALSE when the properties of the
\* add-on are not there: the handler then stops on scene.tbb
run_frame_change_pre(handlers, scn, objs, fs, tbb) ==
    IF handlers = <<>> THEN [objects |-> objs, log |-> <<>>]
    ELSE With(IF tbb THEN update_openfoam_streaming_sequences(scn, objs, fs)
              ELSE [objects |-> objs, calls |-> {}], LAMBDA r :
         With(run_frame_change_pre(Tail(handlers), scn, r.objects, fs, tbb), LAMBDA rest :
         [objects |-> rest.objects,
          log |-> <<[running |-> scn.create_sequence_is_running,
                     raised |-> ~tbb,
                     calls |-> r.calls,
                     changed |-> {o \in DOMAIN objs : r.objects[o].data # objs[o].data}]>>
                  \o rest.log]))

(***************************************************************************)
(* Objects and the settings they are created with.                         *)
(***************************************************************************)
str_sequence == <<"_sequence">>
str_mesh == <<"_mesh">>
HandlerName == "update_openfoam_streaming_sequences"

DefaultClipScalar ==
    [name |-> str_p_value, value |-> 2, vector_value |-> <<1, 2, 2>>, invert |-> FALSE]

NoClip == [is_none |-> FALSE, type |-> "no_clip", scalar |-> DefaultClipScalar]

ClipOnU ==
    [is_none |-> FALSE, type |-> "scalar",
     scalar |-> [DefaultClipScalar EXCEPT !.name = str_U_vector_value]]

\* the settings of the scene (scene.tbb.settings.openfoam) a sequence is
\* made from: read every time point of the file; clip on a field that time
\* point 0 lacks; import a field that time point 0 lacks
SceneSettings ==
    <<[file_path |-> CasePath, case_type |-> "reconstructed", decompose_polyhedra |-> FALSE,
       triangulate |-> TRUE, clip |-> NoClip, shade_smooth |-> FALSE,
       import_point_data |-> FALSE, list_point_data |-> <<>>,
       frame_start |-> 0, anim_length |-> NumTimePoints + 1],
      [file_path |-> CasePath, case_type |-> "decomposed", decompose_polyhedra |-> TRUE,
       triangulate |-> FALSE, clip |-> ClipOnU, shade_smooth |-> TRUE,
       import_point_data |-> TRUE, list_point_data |-> str_p_value,
       frame_start |-> 1, anim_length |-> 2],
      [file_path |-> CasePath, case_type |-> "reconstructed", decompose_polyhedra |-> FALSE,
       triangulate |-> TRUE, clip |-> NoClip, shade_smooth |-> FALSE,
       import_point_data |-> TRUE, list_point_data |-> str_U_vector_value \o <<";">> \o str_p,
       frame_start |-> 0, anim_length |-> 2]>>

DefaultMeshSequenceSettings ==
    [meshNameArray |-> <<>>, numMeshes |-> 0, numMeshesInMemory |-> 0,
     initialized |-> FALSE, loaded |-> FALSE, curMeshIdx |-> 0]

DefaultStreamingSettings ==
    [name |-> <<>>, update |-> FALSE, frame_start |-> -1, anim_length |-> -1,
     file_path |-> "", case_type |-> "reconstructed", decompose_polyhedra |-> FALSE,
     triangulate |-> TRUE, clip |-> NoClip, shade_smooth |-> FALSE,
     import_point_data |-> FALSE, list_point_data |-> <<>>]

\* bpy.data.objects.new(name, mesh)
NewObject(data) ==
    [is_streaming_sequence |-> FALSE, is_mesh_sequence |-> FALSE,
     uid |-> <<>>, module |-> "None",
     settings |-> DefaultStreamingSettings, data |-> data,
     mss |-> DefaultMeshSequenceSettings, animation |-> "none", keyframes |-> <<>>]

\* generate_openfoam_streaming_sequence_obj: the object, named name + "_sequence",
\* with an empty mesh and the read and clip settings of the scene
generate_openfoam_streaming_sequence_obj(settings, name) ==
    LET obj == NewObject(EmptyMeshData)
    IN  [obj EXCEPT !.settings.decompose_polyhedra = settings.decompose_polyhedra,
                    !.settings.triangulate = settings.triangulate,
                    !.settings.case_type = settings.case_type,
                    !.settings.clip = settings.clip]

\* what the 'create streaming sequence' operator sets on the generated object
streaming_sequence_created(settings, name) ==
    LET obj == generate_openfoam_streaming_sequence_obj(settings, name)
    IN  [obj EXCEPT !.is_streaming_sequence = TRUE,
                    !.uid = <<"uid">> \o name \o str_sequence,
                    !.module = "OpenFOAM",
                    !.settings.name = name \o str_sequence,
                    !.settings.update = TRUE,
                    !.settings.file_path = settings.file_path,
                    !.settings.frame_start = settings.frame_start,
                    !.settings.anim_length = settings.anim_length,
                    !.settings.shade_smooth = settings.shade_smooth,
                    !.settings.import_point_data = settings.import_point_data,
                    !.settings.list_point_data = settings.list_point_data]

(***************************************************************************)
(* Mesh sequences.                                                         *)
(***************************************************************************)
\* the name the host gives a new data block: the base name with the first
\* free number (X, X.001, ...)
UniqueName(base, used) ==
    [base |-> base, n |-> Min({n \in 0..Cardinality(used) : [base |-> base, n |-> n] \notin used})]

\* generate_mesh_for_sequence: the exception raised (None if none) and the
\* mesh made in bpy.data.meshes, which an exception of the point data leaves there
generate_mesh_for_sequence(fs, settings, used, time_point, name) ==
    With(load_openfoam_file(fs, settings.file_path, settings.case_type,
                            settings.decompose_polyhedra), LAMBDA ld :
    IF ~ld.success THEN [exc |-> "AttributeError", made |-> FALSE]
    ELSE With(generate_mesh_data(ld.reader, time_point, settings.triangulate,
                                 settings.clip, NoneValue), LAMBDA g :
    IF g.exc # None THEN [exc |-> g.exc, made |-> FALSE]
    ELSE With(from_pydata(EmptyMeshData, g.vertices, g.faces), LAMBDA blender_mesh :
    With(IF settings.import_point_data
         THEN prepare_openfoam_point_data(g.mesh, blender_mesh,
                  Split(settings.list_point_data, ";"), time_point)
         ELSE [exc |-> None, variables |-> <<>>], LAMBDA res :
    [exc |-> res.exc,
     made |-> TRUE,
     name_full |-> UniqueName(name \o str_mesh, used),
     mesh |-> [data |-> IF settings.import_point_data /\ res.exc = None
                        THEN generate_vertex_colors(blender_mesh, res)
                        ELSE blender_mesh,
               time_point |-> time_point,
               use_fake_user |-> TRUE,
               inMeshSequence |-> FALSE]]))))

\* add_mesh_to_sequence with numMeshes left as it was
add_mesh_to_sequence_without_count(obj, name_full) ==
    [obj |-> [obj EXCEPT !.mss.meshNameArray =
                                 Append(obj.mss.meshNameArray, [key |-> name_full, inMemory |-> TRUE]),
                             !.mss.numMeshesInMemory = obj.mss.numMeshesInMemory + 1,
                             !.mss.initialized = TRUE,
                             !.mss.loaded = TRUE],
         id |-> obj.mss.numMeshes - 1]

\* add_mesh_to_sequence: the object afterwards and the id returned
add_mesh_to_sequence(obj, name_full) ==
    LET numMeshes == obj.mss.numMeshes + 1
    IN  [obj |-> [obj EXCEPT !.mss.meshNameArray =
                                 Append(obj.mss.meshNameArray, [key |-> name_full, inMemory |-> TRUE]),
                             !.mss.numMeshes = numMeshes,
                             !.mss.numMeshesInMemory = obj.mss.numMeshesInMemory + 1,
                             !.mss.initialized = TRUE,
                             !.mss.loaded = TRUE],
         id |-> numMeshes - 1]

\* Object.keyframe_insert(data_path = curMeshIdx, frame): the fcurve is made
\* if the action lacks it; a new key has the interpolation of the preferences
keyframe_insert(obj, frame) ==
    [obj EXCEPT !.animation = "fcurve",
                !.keyframes = [f \in DOMAIN obj.keyframes \cup {frame} |->
                    IF f = frame
                    THEN [value |-> obj.mss.curMeshIdx,
                          interpolation |-> IF f \in DOMAIN obj.keyframes
                                            THEN obj.keyframes[f].interpolation ELSE "BEZIER"]
                    ELSE obj.keyframes[f]]]

\* bpy.ops.ms.convert_to_mesh_sequence() on the active object: the sequence
\* object holds the mesh of the object (after an empty mesh, with lead), shows
\* it, and has a constant key on curMeshIdx at the current frame
convert_to_mesh_sequence(obj, name_full, frame, lead) ==
    LET empty == IF lead THEN <<[key |-> [base |-> <<"emptyMesh">>, n |-> 0], inMemory |-> TRUE]>>
                 ELSE <<>>
        names == empty \o <<[key |-> name_full, inMemory |-> TRUE]>>
    IN  [obj EXCEPT !.mss = [meshNameArray |-> names, numMeshes |-> Len(names),
                             numMeshesInMemory |-> Len(names), initialized |-> TRUE,
                             loaded |-> TRUE, curMeshIdx |-> Len(names) - 1],
                    !.animation = "fcurve",
                    !.keyframes = (frame :> [value |-> Len(names) - 1,
                                             interpolation |-> "CONSTANT"])]

Put(f, k, v) == [x \in DOMAIN f \cup {k} |-> IF x = k THEN v ELSE f[x]]

\* one step of the 'create mesh sequence' operator on the context ctx (scene,
\* objects, meshes, disk, handlers, settings): the exception raised (None if
\* none) and the scene, objects, meshes and handler records afterwards
run_one_step_create_mesh_sequence_openfoam(ctx, current_frame, current_time_point, start_time_point, user_sequence_name, lead) ==
    With(user_sequence_name \o str_sequence, LAMBDA seq_obj_name :
    With(generate_mesh_for_sequence(ctx.disk, ctx.settings, DOMAIN ctx.meshes,
                                    current_time_point, user_sequence_name), LAMBDA m :
    With(IF m.made THEN Put(ctx.meshes, m.name_full, m.mesh) ELSE ctx.meshes, LAMBDA made :
    IF m.exc # None
    THEN [exc |-> m.exc, scene |-> ctx.scene, objects |-> ctx.objects, meshes |-> made,
          log |-> <<>>]
    ELSE IF current_time_point = start_time_point
    THEN [exc |-> None, scene |-> ctx.scene,
          objects |-> Put(ctx.objects, seq_obj_name,
                          convert_to_mesh_sequence(NewObject(m.mesh.data), m.name_full,
                                                   ctx.scene.frame_current, lead)),
          meshes |-> [made EXCEPT ![m.name_full].inMeshSequence = TRUE],
          log |-> <<>>]
    ELSE IF seq_obj_name \notin DOMAIN ctx.objects
    THEN [exc |-> "KeyError", scene |-> ctx.scene, objects |-> ctx.objects, meshes |-> made,
          log |-> <<>>]
    ELSE With([ctx.scene EXCEPT !.frame_current = current_frame], LAMBDA scn :
         With(run_frame_change_pre(ctx.handlers, scn, ctx.objects, ctx.disk, TRUE), LAMBDA h :
         With(h.objects[seq_obj_name], LAMBDA obj :
         IF obj.animation = "none"
         THEN [exc |-> "AttributeError", scene |-> scn, objects |-> h.objects,
               meshes |-> made, log |-> h.log]
         ELSE With(add_mesh_to_sequence(obj, m.name_full), LAMBDA added :
              With(keyframe_insert([added.obj EXCEPT !.mss.curMeshIdx = added.id],
                                   scn.frame_current), LAMBDA keyed :
              [exc |-> IF obj.animation = "no_fcurve" THEN "AttributeError" ELSE None,
               scene |-> scn,
               objects |-> Put(h.objects, seq_obj_name,
                               IF obj.animation = "no_fcurve" THEN keyed
                               ELSE [keyed EXCEPT
                                        !.keyframes[scn.frame_current].interpolation =
                                            "CONSTANT"]),
               meshes |-> [made EXCEPT ![m.name_full].inMeshSequence = TRUE],
               log |-> h.log]))))))))

(***************************************************************************)
(* The add-on in the host: registration, streaming sequences followed on   *)
(* frame changes, and the run of the 'create mesh sequence' operator.      *)
(***************************************************************************)
\* the streaming sequences the user creates: their name and the number of
\* the scene settings they are made from
StreamingSequences == {<<<<"A">>, 1>>, <<<<"A">>, 2>>, <<<<"A">>, 3>>, <<<<"B">>, 1>>}
SequenceName == <<"M">>

Init ==
    /\ PipelineIdle /\ TelemacIdle
    /\ addon = [registered |-> TRUE, frame_change_pre |-> <<HandlerName>>]
    /\ scene = [frame_current |-> 0, create_sequence_is_running |-> FALSE]
    /\ disk = {CasePath}
    /\ objects = <<>>
    /\ meshes = <<>>
    /\ seq = NoRun
    /\ log = <<>>

\* register(): the handler is appended to frame_change_pre
Register ==
    /\ ~addon.registered
    /\ Len(addon.frame_change_pre) < MaxHandlers
    /\ addon' = [registered |-> TRUE,
                 frame_change_pre |-> Append(addon.frame_change_pre, HandlerName)]
    /\ log' = <<>>
    /\ UNCHANGED <<gen, tel, ret, scene, disk, objects, meshes, seq>>

\* unregister(): the classes and the properties go, the handler list is left
Unregister ==
    /\ addon.registered
    /\ ~seq.active
    /\ addon' = [addon EXCEPT !.registered = FALSE]
    /\ log' = <<>>
    /\ UNCHANGED <<gen, tel, ret, scene, disk, objects, meshes, seq>>

\* the 'create streaming sequence' operator
CreateStreamingSequence(name, settings) ==
    /\ addon.registered
    /\ ~scene.create_sequence_is_running
    /\ name \o str_sequence \notin DOMAIN objects
    /\ objects' = Put(objects, name \o str_sequence, streaming_sequence_created(settings, name))
    /\ log' = <<>>
    /\ UNCHANGED <<gen, tel, ret, addon, scene, disk, meshes, seq>>

\* the user ticks or unticks 'update' of a streaming sequence
ToggleUpdate(o) ==
    /\ addon.registered
    /\ objects[o].is_streaming_sequence
    /\ objects' = [objects EXCEPT ![o].settings.update = ~objects[o].settings.update]
    /\ log' = <<>>
    /\ UNCHANGED <<gen, tel, ret, addon, scene, disk, meshes, seq>>

\* the file of the case is removed from the disk, or put back
DeleteFile ==
    /\ CasePath \in disk
    /\ disk' = disk \ {CasePath}
    /\ log' = <<>>
    /\ UNCHANGED <<gen, tel, ret, addon, scene, objects, meshes, seq>>

RestoreFile ==
    /\ CasePath \notin disk
    /\ disk' = disk \cup {CasePath}
    /\ log' = <<>>
    /\ UNCHANGED <<gen, tel, ret, addon, scene, objects, meshes, seq>>

\* the frame changes: the host sets it and runs the handlers of
\* frame_change_pre.  After unregister() scene.tbb may or may not resolve
FrameSet(f) ==
    \E tbb \in BOOLEAN :
        /\ addon.registered => tbb
        /\ \E h \in {run_frame_change_pre(addon.frame_change_pre,
                         [scene EXCEPT !.frame_current = f], objects, disk, tbb)} :
               /\ scene' = [scene EXCEPT !.frame_current = f]
               /\ objects' = h.objects
               /\ log' = h.log
        /\ UNCHANGED <<gen, tel, ret, addon, disk, meshes, seq>>

\* the user changes the frame before the operator is run
FrameSetBeforeRun(f) == seq.runs = 0 /\ FrameSet(f)

\* the 'create mesh sequence' operator starts: it sets the running flag and
\* keeps the time points to read and the frame of the first one
StartCreateMeshSequence(settings, start) ==
    /\ addon.registered
    /\ ~scene.create_sequence_is_running
    /\ SequenceName \o str_sequence \notin DOMAIN objects
    /\ seq.runs < MaxRuns
    /\ scene' = [scene EXCEPT !.create_sequence_is_running = TRUE]
    /\ seq' = [active |-> TRUE, settings |-> settings, start |-> start,
               time_point |-> start, end |-> NumTimePoints - 1,
               frame |-> scene.frame_current,
               steps |-> 0, lead |-> FALSE, failed |-> FALSE, runs |-> seq.runs + 1]
    /\ log' = <<>>
    /\ UNCHANGED <<gen, tel, ret, addon, disk, objects, meshes>>

\* what the 'create mesh sequence' operator sets on the object it made
mesh_sequence_created(obj, settings, name) ==
    [obj EXCEPT !.is_mesh_sequence = TRUE,
                !.uid = <<"uid">> \o name \o str_sequence,
                !.module = "OpenFOAM",
                !.settings.file_path = settings.file_path]

\* a timer event of the running operator: one step, then the end of the run
\* after the last time point or on an exception of the step
StepCreateMeshSequence(lead) ==
    /\ seq.active
    /\ lead => seq.time_point = seq.start
    /\ \E r \in {run_one_step_create_mesh_sequence_openfoam(
                     [scene |-> scene, objects |-> objects, meshes |-> meshes,
                      disk |-> disk, handlers |-> addon.frame_change_pre,
                      settings |-> seq.settings],
                     seq.frame, seq.time_point, seq.start, SequenceName, lead)} :
           \E over \in {r.exc # None \/ seq.time_point = seq.end} :
               /\ scene' = [r.scene EXCEPT !.create_sequence_is_running = ~over]
               /\ objects' = IF r.exc = None /\ seq.time_point = seq.start
                             THEN [r.objects EXCEPT ![SequenceName \o str_sequence] =
                                      mesh_sequence_created(@, seq.settings, SequenceName)]
                             ELSE r.objects
               /\ meshes' = r.meshes
               /\ log' = r.log
               /\ seq' = [seq EXCEPT !.active = ~over,
                                     !.failed = r.exc # None,
                                     !.steps = IF r.exc = None THEN @ + 1 ELSE @,
                                     !.lead = IF seq.time_point = seq.start THEN lead ELSE @,
                                     !.time_point = @ + 1,
                                     !.frame = @ + 1]
    /\ UNCHANGED <<gen, tel, ret, addon, disk>>

\* between two steps the user removes the curMeshIdx fcurve of the sequence
\* object, or clears its animation data
EditAnimation(animation) ==
    /\ seq.active
    /\ SequenceName \o str_sequence \in DOMAIN objects
    /\ objects[SequenceName \o str_sequence].animation = "fcurve"
    /\ objects' = [objects EXCEPT ![SequenceName \o str_sequence].animation = animation,
                                  ![SequenceName \o str_sequence].keyframes = <<>>]
    /\ log' = <<>>
    /\ UNCHANGED <<gen, tel, ret, addon, scene, disk, meshes, seq>>

Next ==
    \/ Register
    \/ Unregister
    \/ \E s \in StreamingSequences : CreateStreamingSequence(s[1], SceneSettings[s[2]])
    \/ \E o \in DOMAIN objects : ToggleUpdate(o)
    \/ DeleteFile
    \/ RestoreFile
    \/ \E f \in 0..MaxFrame : FrameSet(f)

Spec == Init /\ [][Next]_vars

\* the creation of a mesh sequence in a scene that holds a streaming sequence
\* the user changes the frame after the operator has ended; the record of
\* the operator's run is gone by then
FrameSetAfterRun(f) ==
    /\ seq.runs >= 1 /\ ~seq.active
    /\ \E h \in {run_frame_change_pre(addon.frame_change_pre,
                     [scene EXCEPT !.frame_current = f], objects, disk, TRUE)} :
           /\ scene' = [scene EXCEPT !.frame_current = f]
           /\ objects' = h.objects
           /\ log' = h.log
    /\ seq' = [NoRun EXCEPT !.runs = seq.runs]
    /\ UNCHANGED <<gen, tel, ret, addon, disk, meshes>>

InitSeq ==
    /\ PipelineIdle /\ TelemacIdle
    /\ addon = [registered |-> TRUE, frame_change_pre |-> <<HandlerName>>]
    /\ scene = [frame_current |-> 0, create_sequence_is_running |-> FALSE]
    /\ disk = {CasePath}
    /\ objects = Put(<<>>, <<"A">> \o str_sequence,
                     streaming_sequence_created(SceneSettings[1], <<"A">>))
    /\ meshes = <<>>
    /\ seq = NoRun
    /\ log = <<>>

NextSeq ==
    \/ \E i \in DOMAIN SceneSettings, start \in 0..(NumTimePoints - 1) :
           StartCreateMeshSequence(SceneSettings[i], start)
    \/ \E lead \in BOOLEAN : StepCreateMeshSequence(lead)
    \/ \E animation \in {"none", "no_fcurve"} : EditAnimation(animation)
    \/ DeleteFile
    \/ RestoreFile
    \/ \E f \in 0..MaxFrame : FrameSetBeforeRun(f)
    \/ \E f \in 0..MaxFrame : FrameSetAfterRun(f)

SpecSeq == InitSeq /\ [][NextSeq]_vars

(***************************************************************************)
(* Properties of the frame-change handler.  log holds one record for each  *)
(* invocation of the handler made by the last frame change.                *)
(***************************************************************************)
\* the objects the frame-change handler is to regenerate at the current frame
Eligible ==
    {o \in DOMAIN objects :
        /\ objects[o].is_streaming_sequence
        /\ objects[o].settings.update
        /\ 0 <= scene.frame_current - objects[o].settings.frame_start
        /\ scene.frame_current - objects[o].settings.frame_start < objects[o].settings.anim_length}

\* C1: while create_sequence_is_running is true an invocation of the
\* frame-change handler regenerates no mesh: it makes no update call and the
\* geometry of every object is afterwards what it was before
C1_NoRegenerationWhileRunning ==
    \A i \in DOMAIN log :
        log[i].running => log[i].calls = {} /\ log[i].changed = {}

\* the handler has run during a run of the operator, at a frame at which the
\* streaming sequence of the scene would otherwise be regenerated
C1_Witness ==
    /\ log # <<>>
    /\ log[1].running
    /\ Eligible # {}
    /\ CasePath \in disk
    /\ \E o \in Eligible : scene.frame_current - objects[o].settings.frame_start < NumTimePoints

\* C2: when no run is in progress the handler regenerates only the objects
\* that are streaming sequences with 'update' on and 0 <= frame_current -
\* frame_start < anim_length, it requests exactly the time point frame_current
\* - frame_start, and every other object keeps its mesh
C2_RegeneratesOnlyEligible ==
    \A i \in DOMAIN log :
        ~log[i].running =>
            /\ \A c \in log[i].calls :
                   /\ c.obj \in Eligible
                   /\ c.time_point = scene.frame_current - objects[c.obj].settings.frame_start
            /\ log[i].changed \subseteq Eligible

\* one frame change regenerated a sequence and left alone a sequence with
\* 'update' off and a sequence outside its animation
C2_Witness ==
    /\ log # <<>>
    /\ ~log[1].running
    /\ log[1].changed # {}
    /\ \E o \in DOMAIN objects \ Eligible :
           /\ objects[o].is_streaming_sequence
           /\ objects[o].data.vertices # <<>>
           /\ \/ ~objects[o].settings.update
              \/ scene.frame_current - objects[o].settings.frame_start
                     >= objects[o].settings.anim_length

\* C3: update_openfoam_streaming_sequence_mesh raises OSError when the file
\* does not exist and ValueError when time_point >= the number of time points
\* of the reader; in both cases and on a failure of the generation of the mesh
\* data the mesh of the object is left as it was, clear_geometry being called
\* only once vertices and faces have been produced
C3_FailuresLeaveMesh ==
    \A i \in DOMAIN log : \A c \in log[i].calls :
        /\ objects[c.obj].settings.file_path \notin disk => c.exc = "OSError"
        /\ (objects[c.obj].settings.file_path \in disk /\ c.time_point >= NumTimePoints)
               => c.exc = "ValueError"
        /\ c.exc \in {"OSError", "ValueError"} => ~c.cleared /\ c.obj \notin log[i].changed
        /\ c.stage = "generate" => ~c.cleared /\ c.obj \notin log[i].changed
        /\ c.cleared => c.stage \in {"point_data", "done"}

\* the generation of the mesh data failed for an object that held a mesh
C3_Witness ==
    \E i \in DOMAIN log : \E c \in log[i].calls :
        /\ c.stage = "generate"
        /\ c.exc # None
        /\ objects[c.obj].data.vertices # <<>>

\* C4: for one frame-change event each eligible streaming sequence is
\* regenerated exactly once, never zero times and never twice
C4_RegeneratedOncePerEvent ==
    (log # <<>> /\ \A i \in DOMAIN log : ~log[i].raised /\ ~log[i].running) =>
        \A o \in Eligible :
            Cardinality({i \in DOMAIN log : \E c \in log[i].calls : c.obj = o}) = 1

(***************************************************************************)
(* Properties of the creation of a mesh sequence.                          *)
(***************************************************************************)
SequenceObject == objects[SequenceName \o str_sequence]

\* the mesh of bpy.data.meshes at a place of the sequence
SequenceMesh(i) == meshes[SequenceObject.mss.meshNameArray[i].key]

\* C5: when the steps are run for the time points start, start + 1, ... in
\* increasing order, the first step creates the sequence object from the mesh
\* of the start time point, each later step adds exactly one mesh to the
\* object named user_sequence_name + "_sequence", sets curMeshIdx to the index
\* returned for it and inserts at the current frame a keyframe with CONSTANT
\* interpolation; after k steps the sequence holds the meshes of the time
\* points start .. start + k - 1 in that order.  Stated for the steps that
\* return and an animation the user has not edited; the place of the first
\* mesh is the one the conversion gave it
C5_MeshSequenceSteps ==
    (seq.steps >= 1 /\ ~seq.failed) =>
        /\ SequenceName \o str_sequence \in DOMAIN objects
        /\ SequenceObject.animation = "fcurve" =>
               LET k == seq.steps
                   lead == IF seq.lead THEN 1 ELSE 0
                   mss == SequenceObject.mss
                   first_frame == seq.frame - k
               IN  /\ Len(mss.meshNameArray) = lead + k
                   /\ mss.numMeshes = lead + k
                   /\ \A j \in 1..k :
                          /\ mss.meshNameArray[lead + j].key \in DOMAIN meshes
                          /\ SequenceMesh(lead + j).time_point = seq.start + j - 1
                          /\ SequenceMesh(lead + j).inMeshSequence
                   /\ SequenceObject.data = SequenceMesh(lead + 1).data
                   /\ \A j \in 2..k :
                          /\ first_frame + j - 1 \in DOMAIN SequenceObject.keyframes
                          /\ SequenceObject.keyframes[first_frame + j - 1] =
                                 [value |-> lead + j - 1, interpolation |-> "CONSTANT"]
                   /\ k >= 2 => /\ mss.curMeshIdx = lead + k - 1
                                /\ scene.frame_current = first_frame + k - 1

\* a run of three steps has returned
C5_Witness ==
    /\ seq.steps >= 3
    /\ ~seq.failed
    /\ ~seq.active
    /\ SequenceName \o str_sequence \in DOMAIN objects
    /\ SequenceObject.animation = "fcurve"
    /\ Len(SequenceObject.mss.meshNameArray) >= 3

(***************************************************************************)
(* Calls of the pipeline functions on the inputs the add-on can give them. *)
(***************************************************************************)
ClipScalars ==
    [name : {str_p_value, str_U_vector_value, str_T_value},
     value : {2, 4},
     vector_value : {<<1, 2, 2>>, <<0, 3, 4>>},
     invert : BOOLEAN]

Clips == {NoneValue} \cup [is_none : {FALSE}, type : {"no_clip", "scalar"}, scalar : ClipScalars]

\* the disk of the pipeline calls: the case exists, the other path does not
GenDisk == {CasePath}

InitGen == gen = [fn |-> "none"] /\ TelemacIdle /\ SceneIdle

\* the caller takes the result and goes on
Return ==
    /\ gen.fn # "none"
    /\ gen' = [fn |-> "none"]
    /\ UNCHANGED <<telemacVars, sceneVars>>

CallLoad ==
    /\ gen.fn = "none"
    /\ \E file_path \in Paths, case_type \in CaseTypes \cup {"1"}, decompose_polyhedra \in BOOLEAN :
        gen' = [fn |-> "load_openfoam_file",
                file_path |-> file_path, case_type |-> case_type,
                decompose_polyhedra |-> decompose_polyhedra,
                res |-> load_openfoam_file(GenDisk, file_path, case_type, decompose_polyhedra)]
    /\ UNCHANGED <<telemacVars, sceneVars>>

CallGenerate ==
    /\ gen.fn = "none"
    /\ \E time_point \in 0..NumTimePoints, triangulate \in BOOLEAN, clip \in Clips,
       given \in BOOLEAN :
        LET file_reader == load_openfoam_file(GenDisk, CasePath, "reconstructed", FALSE).reader
            mesh == IF given /\ time_point < NumTimePoints
                    THEN Some(RawMesh(time_point, "reconstructed")) ELSE NoneValue
        IN  gen' = [fn |-> "generate_mesh_data",
                    time_point |-> time_point, triangulate |-> triangulate,
                    clip |-> clip, mesh |-> mesh,
                    res |-> generate_mesh_data(file_reader, time_point, triangulate, clip, mesh)]
    /\ UNCHANGED <<telemacVars, sceneVars>>

\* the most entries of a list of point data
MaxPointData == 4

\* the entries a list of point data may hold: empty, 'None', names with
\* and without the type suffix (no mesh holds U at time point 0)
RawKeys == {<<>>, str_None, str_p, str_U, str_p_value, str_U_vector_value, str_T_value}

PointDataLists == UNION {[1..k -> RawKeys] : k \in 0..MaxPointData}

CallPrepare ==
    /\ gen.fn = "none"
    /\ \E time_point \in 0..(NumTimePoints - 1), list_point_data \in PointDataLists :
        gen' = [fn |-> "prepare_openfoam_point_data",
                time_point |-> time_point, list_point_data |-> list_point_data,
                res |-> prepare_openfoam_point_data(RawMesh(time_point, "reconstructed"),
                            EmptyMeshData, list_point_data, time_point)]
    /\ UNCHANGED <<telemacVars, sceneVars>>

\* the caller of prepare_openfoam_point_data hands its result to
\* generate_vertex_colors
CallGenerateVertexColors ==
    /\ gen.fn = "prepare_openfoam_point_data"
    /\ gen.res.exc = None
    /\ gen' = [fn |-> "generate_vertex_colors", time_point |-> gen.time_point,
               variables |-> gen.res.variables,
               res |-> generate_vertex_colors(EmptyMeshData, gen.res)]
    /\ UNCHANGED <<telemacVars, sceneVars>>

NextGen == CallLoad \/ CallGenerate \/ CallPrepare \/ CallGenerateVertexColors \/ Return

SpecGen == InitGen /\ [][NextGen]_vars

(***************************************************************************)
(* Properties of the pipeline functions, checked under SpecGen.            *)
(***************************************************************************)
LibraryCalls(mesh, fns) == SelectSeq(mesh.calls, LAMBDA c : c.fn \in fns)

GenerateReturned == gen.fn = "generate_mesh_data" /\ gen.res.exc = None

\* C7: a call of generate_mesh_data that returns has clipped the mesh if and
\* only if clip is not None and clip.type is "scalar"; the clip is made once,
\* on the selected field, with the invert flag of the settings and with the
\* threshold clip.scalar.value for a field of kind 'value' and the Euclidean
\* norm of clip.scalar.vector_value for a field of kind 'vector_value'; and
\* in every case the surface is extracted once, after the clip.
C7_ClipIsOptionalAndThresholds ==
    GenerateReturned =>
        LET wanted == ~gen.clip.is_none /\ gen.clip.type = "scalar"
            clips == LibraryCalls(gen.res.mesh, {"clip_scalar"})
            both == LibraryCalls(gen.res.mesh, {"clip_scalar", "extract_surface"})
        IN  /\ (clips # <<>>) <=> wanted
            /\ both = clips \o <<[fn |-> "extract_surface"]>>
            /\ wanted =>
                  LET parts == Split(gen.clip.scalar.name, "@")
                      threshold == IF parts[2] = str_value THEN gen.clip.scalar.value
                                   ELSE Norm(gen.clip.scalar.vector_value)
                  IN  clips = <<[fn |-> "clip_scalar", scalars |-> parts[1],
                                 invert |-> gen.clip.scalar.invert, value |-> threshold]>>

\* a vector field has been clipped at the norm 5 of (0, 3, 4), inverted
C7_Witness ==
    /\ GenerateReturned
    /\ ~gen.clip.is_none /\ gen.clip.type = "scalar"
    /\ gen.clip.scalar.name = str_U_vector_value
    /\ gen.clip.scalar.invert
    /\ \E i \in DOMAIN gen.res.mesh.calls :
          gen.res.mesh.calls[i].fn = "clip_scalar" /\ gen.res.mesh.calls[i].value = 5

\* C8: with triangulate, every face generate_mesh_data returns has exactly 3
\* vertex indices, every index is at least 0 and smaller than the number of
\* vertices returned, and there are as many faces as the surface mesh
\* returned with them has.
C8_TriangulatedSurface ==
    (GenerateReturned /\ gen.triangulate) =>
        /\ \A j \in DOMAIN gen.res.faces :
              /\ Len(gen.res.faces[j]) = 3
              /\ \A c \in 1..3 : gen.res.faces[j][c] \in 0..(Len(gen.res.vertices) - 1)
        /\ Len(gen.res.faces) = n_faces(gen.res.mesh)

\* a clipped surface of one triangle on 3 vertices, and a polygon cut in 3 triangles
C8_Witness ==
    /\ GenerateReturned /\ gen.triangulate
    /\ \/ Len(gen.res.faces) = 1 /\ Len(gen.res.vertices) = 3
       \/ Len(gen.res.faces) = 3 /\ gen.time_point = 2

\* C9: load_openfoam_file fails, with no reader and none constructed, exactly
\* when the path does not exist; otherwise it returns one reader whose
\* decompose_polyhedra is the argument and which reads the case type asked
\* for ('reconstructed' or 'decomposed').
C9_LoadOpenfoamFile ==
    gen.fn = "load_openfoam_file" =>
        /\ (~gen.res.success) <=> (gen.file_path \notin GenDisk)
        /\ ~gen.res.success => gen.res.reader = NoneReader /\ gen.res.constructed = <<>>
        /\ gen.res.success =>
              /\ Len(gen.res.constructed) = 1
              /\ gen.res.reader.path = gen.file_path
              /\ gen.res.reader.decompose_polyhedra = gen.decompose_polyhedra
              /\ gen.case_type \in CaseTypes => reader_case_read(gen.res.reader) = gen.case_type

\* the decomposed case of an existing file has been asked for, with decomposition
C9_Witness ==
    /\ gen.fn = "load_openfoam_file"
    /\ gen.res.success
    /\ gen.case_type = "decomposed" /\ gen.decompose_polyhedra

\* a missing path has been asked for
C9_WitnessMissing == gen.fn = "load_openfoam_file" /\ ~gen.res.success

(***************************************************************************)
(* TBB_TelemacTemporaryData.  The Serafin file is a record                 *)
(*   nb_pdt   number of time points                                        *)
(*   temps    the times of the time points, a list of nb_pdt values        *)
(*   nbvar    number of variables                                          *)
(*   seed     what the values of the file are computed from                *)
(* and file.read(t) returns, for the time t, one array per variable with   *)
(* one value per vertex.                                                   *)
(***************************************************************************)
TelemacVertices == 2
TimeStep == 10

\* width of the name and of the unit inside a 32-character Serafin title
NameWidth == 16

str_NONE == <<"N", "O", "N", "E">>

\* variant that cuts the string at its first space
remove_spaces_at_first_space(string) ==
    LET spaces == {i \in 1..Len(string) : string[i] = " "}
        cut == IF spaces = {} THEN string ELSE SubSeq(string, 1, Min(spaces) - 1)
    IN  IF cut = <<>> THEN str_NONE ELSE cut

\* remove_spaces_telemac_var_name: scan from the last character down to the
\* first one, cut after the first character met that is not a space
remove_spaces_telemac_var_name(string) ==
    LET kept == {i \in 1..Len(string) : string[i] # " "}
    IN  IF kept = {} THEN str_NONE ELSE SubSeq(string, 1, Max(kept))

Pad(string, width) == string \o [i \in 1..(width - Len(string)) |-> " "]

str_FOND == <<"F", "O", "N", "D">>
str_SALINITE == <<"S", "A", "L", "I", "N", "I", "T", "E">>
str_VITESSE_U == <<"V", "I", "T", "E", "S", "S", "E", " ", "U">>
str_M == <<"M">>
str_M_S == <<"M", "/", "S">>

\* the titles of a Serafin file: name and unit, each padded to NameWidth
VarTitles ==
    << Pad(str_FOND, NameWidth) \o Pad(str_M, NameWidth),
       Pad(str_SALINITE, NameWidth) \o Pad(<<>>, NameWidth),
       Pad(str_VITESSE_U, NameWidth) \o Pad(str_M_S, NameWidth) >>

SerafinFile(nb_pdt, nbvar, seed) ==
    [nb_pdt |-> nb_pdt,
     temps |-> [i \in 1..nb_pdt |-> TimeStep * (i - 1)],
     nbvar |-> nbvar,
     nomvar |-> [v \in 1..nbvar |-> VarTitles[((v - 1) % Len(VarTitles)) + 1]],
     seed |-> seed]

\* Serafin.read(t): the values at time t, indexed data[var_id + 1][vertex]
serafin_read(file, t) ==
    [v \in 1..file.nbvar |->
        [x \in 1..TelemacVertices |-> ((file.seed + ((t \div TimeStep) + 1) * v + x * x) % 7) - 3]]

\* list[i] of Python: a negative index counts from the end
PyIndex(list, i) ==
    IF i >= Len(list) \/ i < -Len(list) THEN Raise("IndexError")
    ELSE [exc |-> None, value |-> list[(IF i < 0 THEN i + Len(list) ELSE i) + 1]]

\* TBB_TelemacTemporaryData.read
telemac_read(self, time_point) ==
    IF time_point > self.nb_time_points \/ time_point < 0 THEN Raise("ValueError")
    ELSE LET t == PyIndex(self.file.temps, time_point)
         IN  IF t.exc # None THEN t
             ELSE [exc |-> None, value |-> serafin_read(self.file, t.value)]

\* VariablesInformation after clear(): three parallel lists
VariablesInformation == [names |-> <<>>, units |-> <<>>, ranges |-> <<>>]

\* VariablesInformation.append
vars_info_append(vars_info, name, unit, range) ==
    [names |-> Append(vars_info.names, name),
     units |-> Append(vars_info.units, unit),
     ranges |-> Append(vars_info.ranges, range)]

\* list.index of Python
ListIndex(list, x) ==
    IF \E i \in DOMAIN list : list[i] = x
    THEN [exc |-> None, value |-> Min({i \in DOMAIN list : list[i] = x}) - 1]
    ELSE Raise("ValueError")

\* np.min and np.max of one variable's values
ValueRange(values) == [min |-> Min(Range(values)), max |-> Max(Range(values))]

\* TBB_TelemacTemporaryData.compute_var_value_range: reads every time point,
\* stores the range under "global" in the variable's stored ranges, returns
\* the tuple (min, max)
compute_var_value_range(self, var_id) ==
    LET values == UNION {Range(telemac_read(self, t).value[var_id + 1]) : t \in 0..(self.nb_time_points - 1)}
        slot == PyIndex(self.vars_info.ranges, var_id)
    IN  IF slot.exc # None THEN [exc |-> slot.exc, self |-> self]
        ELSE IF slot.value = NoneValue THEN [exc |-> "TypeError", self |-> self]
        ELSE [exc |-> None,
              self |-> [self EXCEPT !.vars_info.ranges[var_id + 1] =
                            Put(@, "global", [min |-> Min(values), max |-> Max(values)])],
              value |-> <<Min(values), Max(values)>>]

RECURSIVE construct_vars_info(_, _, _)
\* the loop of __init__ over zip(self.file.nomvar, range(self.nb_vars))
construct_vars_info(self, compute_value_ranges, id) ==
    IF id >= Min({Len(self.file.nomvar), self.nb_vars}) THEN self
    ELSE LET var_name == self.file.nomvar[id + 1]
             name == remove_spaces_telemac_var_name(SubSeq(var_name, 1, NameWidth))
             unit == remove_spaces_telemac_var_name(SubSeq(var_name, NameWidth + 1, Len(var_name)))
         IN  IF compute_value_ranges
             THEN LET r == compute_var_value_range(self, id)
                  IN  IF r.exc # None THEN [r.self EXCEPT !.exc = r.exc]
                      \* value_range["min"] on the tuple returned
                      ELSE [r.self EXCEPT !.exc = "TypeError"]
             ELSE LET value_range == [local |-> ValueRange(telemac_read(self, 0).value[id + 1])]
                  IN  construct_vars_info(
                          [self EXCEPT !.vars_info = vars_info_append(@, name, unit, value_range)],
                          compute_value_ranges, id + 1)

\* TBB_TelemacTemporaryData.__init__: the fields the methods modelled here
\* read, and the exception the construction ended with
TelemacTemporaryData(file, compute_value_ranges) ==
    construct_vars_info(
        [exc |-> None,
         compute_value_ranges |-> compute_value_ranges,
         file |-> file,
         data |-> serafin_read(file, file.temps[1]),
         nb_vars |-> file.nbvar,
         nb_time_points |-> file.nb_pdt,
         vars_info |-> VariablesInformation],
        compute_value_ranges, 0)

\* TBB_TelemacTemporaryData.update
telemac_update(self, time_point) ==
    LET r == telemac_read(self, time_point)
    IN  IF r.exc # None THEN [exc |-> r.exc, self |-> self]
        ELSE [exc |-> None,
              self |-> [self EXCEPT !.data = r.value,
                                    !.vars_info.ranges = [id \in DOMAIN @ |->
                                        Put(@[id], "local", ValueRange(r.value[id]))]]]

\* TBB_TelemacTemporaryData.get_var_value_range; var is a name or an id,
\* given with its Python type
get_var_value_range(self, var) ==
    LET found == IF var.type = "str" THEN ListIndex(self.vars_info.names, var.name)
                 ELSE [exc |-> None, value |-> var.id]
    IN  IF found.exc # None THEN [exc |-> found.exc, self |-> self]
        ELSE IF found.value < 0 \/ found.value > self.nb_vars THEN [exc |-> "ValueError", self |-> self]
        ELSE LET value_range == PyIndex(self.vars_info.ranges, found.value)
             IN  IF value_range.exc # None THEN [exc |-> value_range.exc, self |-> self]
                 ELSE IF value_range.value = NoneValue
                      THEN compute_var_value_range(self, found.value)
                      ELSE [exc |-> None, self |-> self, value |-> value_range.value]

\* variant that looks the name up before it reads the time point
get_data_from_var_name_name_first(self, var_name, time_point, output_shape) ==
    LET var_id == ListIndex(self.vars_info.names, var_name)
        data == telemac_read(self, time_point)
    IN  IF var_id.exc = "ValueError" THEN Raise("NameError")
        ELSE IF data.exc # None THEN data
        ELSE IF output_shape = "ROW"
             THEN [exc |-> None, value |-> data.value[var_id.value + 1]]
             ELSE [exc |-> None,
                   value |-> [i \in DOMAIN data.value[var_id.value + 1] |->
                                 <<data.value[var_id.value + 1][i]>>]]

\* TBB_TelemacTemporaryData.get_data_from_var_name
get_data_from_var_name(self, var_name, time_point, output_shape) ==
    LET data == telemac_read(self, time_point)
    IN  IF data.exc # None THEN data
        ELSE LET var_id == ListIndex(self.vars_info.names, var_name)
             IN  IF var_id.exc = "ValueError" THEN Raise("NameError")
                 ELSE IF output_shape = "ROW"
                      THEN [exc |-> None, value |-> data.value[var_id.value + 1]]
                      ELSE [exc |-> None,
                            value |-> [i \in DOMAIN data.value[var_id.value + 1] |->
                                          <<data.value[var_id.value + 1][i]>>]]

RECURSIVE possible_var_names_loop(_, _, _, _)
\* the loop of get_data_from_possible_var_names from the i-th name on
possible_var_names_loop(self, possible_var_names, time_point, i) ==
    IF i > Len(possible_var_names) THEN Raise("NameError")
    ELSE LET z_values == get_data_from_var_name(self, possible_var_names[i], time_point, "COL")
         IN  IF z_values.exc = "NameError"
             THEN possible_var_names_loop(self, possible_var_names, time_point, i + 1)
             ELSE IF z_values.exc # None THEN z_values
             ELSE [exc |-> None, value |-> <<z_values.value, possible_var_names[i]>>]

RECURSIVE possible_var_names_any_error(_, _, _, _)
\* variant that goes on to the next name after any error
possible_var_names_any_error(self, possible_var_names, time_point, i) ==
    IF i > Len(possible_var_names) THEN Raise("NameError")
    ELSE LET z_values == get_data_from_var_name(self, possible_var_names[i], time_point, "COL")
         IN  IF z_values.exc # None
             THEN possible_var_names_any_error(self, possible_var_names, time_point, i + 1)
             ELSE [exc |-> None, value |-> <<z_values.value, possible_var_names[i]>>]

get_data_from_possible_var_names_any_error(self, possible_var_names, time_point) ==
    possible_var_names_any_error(self, possible_var_names, time_point, 1)

\* TBB_TelemacTemporaryData.get_data_from_possible_var_names
get_data_from_possible_var_names(self, possible_var_names, time_point) ==
    possible_var_names_loop(self, possible_var_names, time_point, 1)

\* the state when the construction of a TBB_TelemacTemporaryData ends
InitTelemac ==
    /\ PipelineIdle /\ SceneIdle
    /\ \E nb_pdt \in 1..MaxTelemacTimePoints, nbvar \in 1..MaxTelemacVars, seed \in 0..6 :
       \E compute_value_ranges \in BOOLEAN :
          tel = TelemacTemporaryData(SerafinFile(nb_pdt, nbvar, seed), compute_value_ranges)
    /\ ret = [fn |-> "__init__", res |-> [exc |-> tel.exc]]

\* the time points a caller may ask for: below, inside and above the file's
TimePointArgs == (-2)..(MaxTelemacTimePoints + 2)

CallRead ==
    /\ tel.exc = None
    /\ ret.fn = "none"
    /\ \E time_point \in TimePointArgs :
          ret' = [fn |-> "read", time_point |-> time_point, res |-> telemac_read(tel, time_point)]
    /\ UNCHANGED <<gen, tel, sceneVars>>

\* TBB_TelemacTemporaryData.update: reads the time point into self.data
CallUpdate ==
    /\ tel.exc = None
    /\ ret.fn = "none"
    /\ \E time_point \in TimePointArgs :
          LET r == telemac_update(tel, time_point)
          IN  /\ ret' = [fn |-> "update", time_point |-> time_point, res |-> [exc |-> r.exc]]
              /\ tel' = r.self
    /\ UNCHANGED <<gen, sceneVars>>

str_X == <<"X">>
str_Y == <<"Y">>

\* the names a caller may ask for: two that files define, two that none does
NameArgs == {str_FOND, str_SALINITE, str_X, str_Y}

\* the variables a caller may ask for: ids below, inside and above the
\* file's, and names
VarArgs ==
    {[type |-> "int", id |-> i] : i \in (-2)..(MaxTelemacVars + 2)}
        \cup {[type |-> "str", name |-> n] : n \in NameArgs}

CallGetVarValueRange ==
    /\ tel.exc = None
    /\ ret.fn = "none"
    /\ \E var \in VarArgs :
          LET r == get_var_value_range(tel, var)
          IN  /\ ret' = [fn |-> "get_var_value_range", var |-> var,
                         res |-> IF r.exc = None THEN [exc |-> None, value |-> r.value]
                                 ELSE [exc |-> r.exc]]
              /\ tel' = r.self
    /\ UNCHANGED <<gen, sceneVars>>

OutputShapes == {"ROW", "COL", "FLAT"}

CallGetDataFromVarName ==
    /\ tel.exc = None
    /\ ret.fn = "none"
    /\ \E var_name \in NameArgs, time_point \in TimePointArgs, output_shape \in OutputShapes :
          ret' = [fn |-> "get_data_from_var_name", var_name |-> var_name,
                  time_point |-> time_point, output_shape |-> output_shape,
                  res |-> get_data_from_var_name(tel, var_name, time_point, output_shape)]
    /\ UNCHANGED <<gen, tel, sceneVars>>

\* the lists of possible names a caller may give
PossibleVarNames ==
    { <<>>, <<str_X>>, <<str_FOND>>, <<str_X, str_Y>>, <<str_X, str_SALINITE>>,
      <<str_FOND, str_SALINITE>>, <<str_SALINITE, str_FOND>>, <<str_SALINITE, str_X>>,
      <<str_X, str_Y, str_FOND>> }

CallGetDataFromPossibleVarNames ==
    /\ tel.exc = None
    /\ ret.fn = "none"
    /\ \E possible_var_names \in PossibleVarNames, time_point \in TimePointArgs :
          ret' = [fn |-> "get_data_from_possible_var_names",
                  possible_var_names |-> possible_var_names, time_point |-> time_point,
                  res |-> get_data_from_possible_var_names(tel, possible_var_names, time_point)]
    /\ UNCHANGED <<gen, tel, sceneVars>>

ReturnTelemac ==
    /\ ret.fn # "none"
    /\ ret' = [fn |-> "none"]
    /\ UNCHANGED <<gen, tel, sceneVars>>

NextTelemac ==
    \/ CallRead
    \/ CallUpdate
    \/ CallGetVarValueRange
    \/ CallGetDataFromVarName
    \/ CallGetDataFromPossibleVarNames
    \/ ReturnTelemac

SpecTelemac == InitTelemac /\ [][NextTelemac]_vars

\* C10: TBB_TelemacTemporaryData.read raises ValueError, and nothing else,
\* for every time point below 0 and every time point at or above
\* nb_time_points, and returns the data of the time point otherwise.
C10_ReadRaisesValueError ==
    ret.fn = "read" =>
        IF ret.time_point < 0 \/ ret.time_point >= tel.nb_time_points
        THEN ret.res.exc = "ValueError"
        ELSE /\ ret.res.exc = None
             /\ ret.res.value = serafin_read(tel.file, tel.file.temps[ret.time_point + 1])

\* C11: get_var_value_range raises ValueError for every variable id below 0
\* and every variable id at or above nb_vars, and for a defined variable it
\* returns the value range stored for it.
C11_GetVarValueRange ==
    (ret.fn = "get_var_value_range" /\ ret.var.type = "int") =>
        IF ret.var.id < 0 \/ ret.var.id >= tel.nb_vars
        THEN ret.res.exc = "ValueError"
        ELSE /\ ret.res.exc = None
             /\ ret.res.value = tel.vars_info.ranges[ret.var.id + 1]

\* C12: the construction of a TBB_TelemacTemporaryData completes; with
\* compute_value_ranges = True every variable's entry of vars_info holds a
\* 'global' range, the minimum and the maximum of the variable over all the
\* time points; with compute_value_ranges = False it holds a 'local' range,
\* the minimum and the maximum at time point 0; in both cases vars_info has
\* exactly nb_vars entries, in the order of the file.
C12_ConstructionValueRanges ==
    ret.fn = "__init__" =>
        /\ tel.exc = None
        /\ Len(tel.vars_info.names) = tel.nb_vars
        /\ Len(tel.vars_info.ranges) = tel.nb_vars
        /\ \A id \in 1..tel.nb_vars :
              /\ tel.vars_info.names[id]
                    = remove_spaces_telemac_var_name(SubSeq(tel.file.nomvar[id], 1, NameWidth))
              /\ IF tel.compute_value_ranges
                 THEN /\ "global" \in DOMAIN tel.vars_info.ranges[id]
                      /\ tel.vars_info.ranges[id]["global"]
                            = ValueRange(Concat([i \in 1..tel.nb_time_points |->
                                  serafin_read(tel.file, tel.file.temps[i])[id]]))
                 ELSE /\ "local" \in DOMAIN tel.vars_info.ranges[id]
                      /\ tel.vars_info.ranges[id]["local"]
                            = ValueRange(serafin_read(tel.file, tel.file.temps[1])[id])

\* the positions of the names of a list that the file defines
DefinedNames(names) == {i \in DOMAIN names : names[i] \in Range(tel.vars_info.names)}

\* the values of the named variable at a time point, as an n x 1 column
ColumnOf(name, time_point) ==
    LET var_id == Min({v \in DOMAIN tel.vars_info.names : tel.vars_info.names[v] = name})
        data == serafin_read(tel.file, tel.file.temps[time_point + 1])[var_id]
    IN  [i \in DOMAIN data |-> <<data[i]>>]

\* C13 as stated: get_data_from_possible_var_names raises NameError exactly
\* when none of the names is a defined variable, the empty list included,
\* and otherwise returns the data and the name of the first defined name or
\* propagates the error of the read.
C13_NameErrorExactlyWhenNoneDefined ==
    ret.fn = "get_data_from_possible_var_names" =>
        /\ ret.res.exc = "NameError" <=> DefinedNames(ret.possible_var_names) = {}
        /\ ret.res.exc = None =>
              ret.res.value = <<ColumnOf(ret.possible_var_names[Min(DefinedNames(ret.possible_var_names))], ret.time_point),
                                ret.possible_var_names[Min(DefinedNames(ret.possible_var_names))]>>

\* C13, amended: get_data_from_possible_var_names raises NameError exactly
\* when none of the names is a defined variable and the list is empty or the
\* time point can be read; with a non-empty list and a time point that
\* cannot be read it raises the error of the read, whatever the names; and
\* otherwise it returns the data and the name of the first name, in list
\* order, that is a defined variable.
C13_PossibleVarNames ==
    ret.fn = "get_data_from_possible_var_names" =>
        IF ret.possible_var_names = <<>> THEN ret.res.exc = "NameError"
        ELSE IF telemac_read(tel, ret.time_point).exc # None
             THEN ret.res.exc = telemac_read(tel, ret.time_point).exc /\ ret.res.exc # "NameError"
        ELSE IF DefinedNames(ret.possible_var_names) = {} THEN ret.res.exc = "NameError"
        ELSE /\ ret.res.exc = None
             /\ ret.res.value = <<ColumnOf(ret.possible_var_names[Min(DefinedNames(ret.possible_var_names))], ret.time_point),
                                  ret.possible_var_names[Min(DefinedNames(ret.possible_var_names))]>>

\* a name that is not defined comes first, the second name is returned
C13_Witness ==
    /\ ret.fn = "get_data_from_possible_var_names"
    /\ Len(ret.possible_var_names) = 2
    /\ 1 \notin DefinedNames(ret.possible_var_names)
    /\ ret.res.exc = None
    /\ ret.res.value[2] = ret.possible_var_names[2]

\* C14: get_data_from_var_name re-raises the error of the read when the
\* time point cannot be read, whatever the name; otherwise it raises
\* NameError when the name is not a defined variable; otherwise with 'ROW'
\* it returns the n values of the variable as a 1-D array, and with 'COL' or
\* any other output_shape the same n values, in the same order, as an n x 1
\* column.
C14_GetDataFromVarName ==
    ret.fn = "get_data_from_var_name" =>
        IF telemac_read(tel, ret.time_point).exc # None
        THEN ret.res.exc = telemac_read(tel, ret.time_point).exc /\ ret.res.exc # "NameError"
        ELSE IF ret.var_name \notin Range(tel.vars_info.names) THEN ret.res.exc = "NameError"
        ELSE /\ ret.res.exc = None
             /\ Len(ret.res.value) = TelemacVertices
             /\ IF ret.output_shape = "ROW"
                THEN \A i \in 1..TelemacVertices : <<ret.res.value[i]>> = ColumnOf(ret.var_name, ret.time_point)[i]
                ELSE ret.res.value = ColumnOf(ret.var_name, ret.time_point)

\* an unknown output_shape gave a column
C14_Witness ==
    /\ ret.fn = "get_data_from_var_name"
    /\ ret.output_shape \notin {"ROW", "COL"}
    /\ ret.res.exc = None
    /\ Len(ret.res.value) = TelemacVertices
    /\ Len(ret.res.value[1]) = 1

\* the most calls of add_mesh_to_sequence made on one object
MaxAdds == 4

\* the names of the meshes given to add_mesh_to_sequence
MeshNamesFull == {[base |-> SequenceName \o str_sequence, n |-> n] : n \in 0..2}

\* objects whose numMeshes equals the length of meshNameArray: a new
\* object and the objects convert_to_mesh_sequence leaves
InitAdd ==
    /\ TelemacIdle /\ SceneIdle
    /\ \E o \in {NewObject(EmptyMeshData)}
              \cup {convert_to_mesh_sequence(NewObject(EmptyMeshData), [base |-> SequenceName, n |-> 0], 0, lead) :
                        lead \in BOOLEAN} :
          gen = [fn |-> "new", obj |-> o, ids |-> <<>>]

\* one more call of add_mesh_to_sequence on the object
CallAddMeshToSequence ==
    /\ Len(gen.ids) < MaxAdds
    /\ \E name_full \in MeshNamesFull :
          LET r == add_mesh_to_sequence(gen.obj, name_full)
          IN  gen' = [fn |-> "add_mesh_to_sequence", before |-> gen.obj, name_full |-> name_full,
                      obj |-> r.obj, ids |-> Append(gen.ids, r.id)]
    /\ UNCHANGED <<telemacVars, sceneVars>>

NextAdd == CallAddMeshToSequence

SpecAdd == InitAdd /\ [][NextAdd]_vars

\* C15: add_mesh_to_sequence appends exactly one entry to meshNameArray,
\* with the name of the mesh as key and inMemory true, increases numMeshes
\* and numMeshesInMemory by 1, sets initialized and loaded, and returns the
\* previous numMeshes; after any number of calls on an object whose numMeshes
\* equalled the length of meshNameArray, numMeshes still equals that length
\* and the ids returned are consecutive and strictly increasing.
C15_AddMeshToSequence ==
    /\ gen.obj.mss.numMeshes = Len(gen.obj.mss.meshNameArray)
    /\ \A i \in 2..Len(gen.ids) : gen.ids[i] = gen.ids[i - 1] + 1
    /\ gen.fn = "add_mesh_to_sequence" =>
          /\ gen.obj.mss.meshNameArray
                = Append(gen.before.mss.meshNameArray, [key |-> gen.name_full, inMemory |-> TRUE])
          /\ gen.obj.mss.numMeshes = gen.before.mss.numMeshes + 1
          /\ gen.obj.mss.numMeshesInMemory = gen.before.mss.numMeshesInMemory + 1
          /\ gen.obj.mss.initialized /\ gen.obj.mss.loaded
          /\ gen.ids[Len(gen.ids)] = gen.before.mss.numMeshes

\* three meshes were added to a sequence that held two
C15_Witness ==
    /\ gen.fn = "add_mesh_to_sequence"
    /\ gen.ids = <<2, 3, 4>>
    /\ Len(gen.obj.mss.meshNameArray) = 5

\* C16: when the sequence object has no 'curMeshIdx' fcurve, a later step
\* of the creation adds no mesh to it and leaves numMeshes, meshNameArray,
\* curMeshIdx and the keyframes of the object unchanged.
C16_NoFcurveNoMesh ==
    [][(/\ seq.active
        /\ seq.time_point # seq.start
        /\ seq'.time_point = seq.time_point + 1
        /\ SequenceName \o str_sequence \in DOMAIN objects
        /\ SequenceObject.animation # "fcurve")
         => /\ SequenceName \o str_sequence \in DOMAIN objects'
            /\ SequenceObject'.mss = SequenceObject.mss
            /\ SequenceObject'.keyframes = SequenceObject.keyframes]_vars

\* C17: prepare_openfoam_point_data never raises; every variable it returns
\* is a key of mesh.point_data and is not 'None'; a name the mesh does not
\* hold, given with a '@value' or '@vector_value' suffix or without, is
\* skipped.
C17_PointDataFiltered ==
    gen.fn = "prepare_openfoam_point_data" =>
        /\ gen.res.exc = None
        /\ \A i \in DOMAIN gen.res.variables :
              /\ gen.res.variables[i].id \in DOMAIN RawMesh(gen.time_point, "reconstructed").point_data
              /\ gen.res.variables[i].id # str_None

\* the variables prepared whose array in the mesh of the time point has one
\* component, and those whose array has three, in list order
ScalarsOf(variables, time_point) ==
    SelectSeq(variables, LAMBDA var : RawMesh(time_point, "reconstructed").point_data[var.id].dim = 1)
VectorsOf(variables, time_point) ==
    SelectSeq(variables, LAMBDA var : RawMesh(time_point, "reconstructed").point_data[var.id].dim = 3)

MaxNameLen == 4

\* the characters of the strings: the space and the letters of "NONE"
NameChars == {" ", "N", "O", "E"}

NameStrings == UNION {[1..k -> NameChars] : k \in 0..MaxNameLen}

InitNames == PipelineIdle /\ TelemacIdle /\ SceneIdle

CallRemoveSpaces ==
    /\ ret.fn = "none"
    /\ \E string \in NameStrings :
          ret' = [fn |-> "remove_spaces_telemac_var_name", string |-> string,
                  res |-> remove_spaces_telemac_var_name(string)]
    /\ UNCHANGED <<gen, tel, sceneVars>>

\* the function applied to its own result
CallRemoveSpacesAgain ==
    /\ ret.fn = "remove_spaces_telemac_var_name"
    /\ ret' = [fn |-> "remove_spaces_telemac_var_name_again", string |-> ret.res,
               res |-> remove_spaces_telemac_var_name(ret.res)]
    /\ UNCHANGED <<gen, tel, sceneVars>>

NextNames == CallRemoveSpaces \/ CallRemoveSpacesAgain \/ ReturnTelemac

SpecNames == InitNames /\ [][NextNames]_vars

\* a string that is empty or made only of spaces
Blank(string) == \A i \in DOMAIN string : string[i] = " "

\* prefix is the longest prefix of string that does not end with a space
LongestPrefixWithoutTrailingSpace(prefix, string) ==
    /\ Len(prefix) <= Len(string)
    /\ prefix = SubSeq(string, 1, Len(prefix))
    /\ prefix # <<>> => prefix[Len(prefix)] # " "
    /\ \A i \in (Len(prefix) + 1)..Len(string) : string[i] = " "

\* C20 as stated: the result of remove_spaces_telemac_var_name is the
\* literal "NONE" exactly when the input is empty or made only of spaces,
\* it is otherwise the longest prefix of the input that does not end with a
\* space, and applying the function to its own result changes nothing.
C20_NoneExactlyWhenBlank ==
    /\ ret.fn = "remove_spaces_telemac_var_name" =>
          /\ ret.res = str_NONE <=> Blank(ret.string)
          /\ ~Blank(ret.string) => LongestPrefixWithoutTrailingSpace(ret.res, ret.string)
    /\ ret.fn = "remove_spaces_telemac_var_name_again" => ret.res = ret.string

\* C20, amended: the result of remove_spaces_telemac_var_name is the
\* literal "NONE" when the input is empty or made only of spaces, and
\* otherwise the longest prefix of the input that does not end with a space
\* (which is "NONE" too when the input is "NONE" followed by spaces);
\* applying the function to its own result changes nothing.
C20_RemoveSpaces ==
    /\ ret.fn = "remove_spaces_telemac_var_name" =>
          IF Blank(ret.string) THEN ret.res = str_NONE
          ELSE LongestPrefixWithoutTrailingSpace(ret.res, ret.string)
    /\ ret.fn = "remove_spaces_telemac_var_name_again" => ret.res = ret.string

\* a string with a space inside and a space at its end lost the last one only
C20_Witness ==
    /\ ret.fn = "remove_spaces_telemac_var_name"
    /\ ret.string = <<"N", " ", "O", " ">>
    /\ ret.res = <<"N", " ", "O">>

\* the streaming sequence object of the scene
StreamingObject == objects[<<"A">> \o str_sequence]

C21_HandlerAtMostOnce ==
    /\ Cardinality({i \in DOMAIN addon.frame_change_pre :
                       addon.frame_change_pre[i] = HandlerName}) <= 1
    /\ ~addon.registered => HandlerName \notin Range(addon.frame_change_pre)
    /\ Len(log) <= 1

====
